---- MODULE Spec2Model ----
(***************************************************************************)
(* Seat-inventory booking / cancellation engine of railway3.cc.            *)
(*                                                                         *)
(* Several processes run the program against one SQLite file.  Each        *)
(* process owns one connection (DatabaseManager singleton).  A statement   *)
(* run by sqlite3_exec is one atomic step.  BEGIN IMMEDIATE takes the      *)
(* database-wide write lock or fails at once (no busy handler is ever      *)
(* installed); until COMMIT the holder's writes live in its private copy   *)
(* and every other connection reads the committed tables.                  *)
(***************************************************************************)
EXTENDS Integers, Sequences, FiniteSets, TLC

\* ---------------------------------------------------------------- bounds
MaxSeats == 2
MaxDay == 2

\* the processes running the user menu
Procs == {1, 2}
TrainNos == {"T1"}
TicketIds == {"TKT1", "TKT2"}
\* dates an administrator may type in scheduleTrain
Dates == {1}
\* numbers an administrator may type for a seat total (no validation in addTrain)
SeatInputs == {-1, MaxSeats}
SleeperInputs == {1}
AcFareInputs == {10}
SleeperFareInputs == {5}
\* numbers a user may type at the prompts of bookTicket
ScheduleIdInputs == 0..(Cardinality(TrainNos) * Cardinality(Dates))
ChoiceInputs == {1, 2, 3}
NumSeatsInputs == 0..(MaxSeats + 1)
ConfirmInputs == {"y", "n"}

EmptyBookings == [t \in {} |-> 0]
NoTx == [open |-> FALSE, schedules |-> <<>>, bookings |-> EmptyBookings]
NoLocals == [scheduleId |-> 0, chosenClass |-> "", seatColumn |-> "",
             numSeats |-> 0, totalFare |-> 0,
             ticketId |-> "", currentAvailableSeats |-> 0]

\* a step that prints no result
Silence == [proc |-> 0, msg |-> "None", ticketId |-> ""]
\* process p prints msg (ticketId: the ticket id the message is about)
Line(p, msg, ticketId) == [proc |-> p, msg |-> msg, ticketId |-> ticketId]

\* the history variable: off (never written), or the most recent committed
\* booking with the tables as they were before it, and the most recent
\* committed cancellation with no booking committed since
NoBooked == [ticketId |-> "", scheduleId |-> 0, row |-> <<>>, bookings |-> EmptyBookings]
NoCancelled == [ticketId |-> "", username |-> "", restored |-> FALSE]
HistoryOff == [on |-> FALSE, booked |-> NoBooked, cancelled |-> NoCancelled]
HistoryOn == [on |-> TRUE, booked |-> NoBooked, cancelled |-> NoCancelled]

VARIABLES
    trains,       \* table trains: train_number -> row
    schedules,    \* table schedules: sequence indexed by schedule_id (AUTOINCREMENT)
    bookings,     \* table bookings: ticket_id -> row
    today,        \* date('now')
    tx,           \* per process: its open write transaction's private tables
    pc,           \* per process: position in bookTicket / cancelTicket
    loc,          \* per process: the locals of the running handler
    console,      \* what the last step printed, and the process that printed it
    capacity,     \* history: per schedule, the seat totals copied at its creation
    history       \* history: the last committed booking and cancellation (when on)

vars == <<trains, schedules, bookings, today, tx, pc, loc, console, capacity, history>>

\* loggedInUsername of each process (handleUserLogin)
loggedInUsername(p) == IF p % 2 = 1 THEN "alice" ELSE "bob"

\* ------------------------------------------------------------ the schema
\* a schedules table without its UNIQUE constraint
ScheduleAlwaysUnique(S, trainNumber, date) == TRUE

\* UNIQUE(train_number, departure_date) of table schedules
ScheduleUnique(S, trainNumber, date) ==
    \A i \in 1..Len(S) :
        ~(S[i].train_number = trainNumber /\ S[i].departure_date = date)

\* a bookings table without its PRIMARY KEY
TicketIdAlwaysFree(B, ticketId) == TRUE

\* PRIMARY KEY of table bookings
TicketIdFree(B, ticketId) == ticketId \notin DOMAIN B

\* ------------------------------------------------------- DatabaseManager
\* a BEGIN that takes no write lock
beginTransactionNoLock(p) == ~tx[p].open

\* BEGIN IMMEDIATE succeeds iff no other connection holds the write lock and
\* this connection has no transaction open.
beginTransaction(p) == \A q \in Procs : ~tx[q].open

\* an autocommit INSERT/DELETE needs the write lock as well
WriteLockFree == \A q \in Procs : ~tx[q].open

\* a reader that sees another connection's uncommitted writes
ViewBookingsUncommitted(p) ==
    IF \E q \in Procs : tx[q].open
    THEN tx[CHOOSE q \in Procs : tx[q].open].bookings
    ELSE bookings

\* the tables a SELECT of process p reads
ViewSchedules(p) == IF tx[p].open THEN tx[p].schedules ELSE schedules
ViewBookings(p) == IF tx[p].open THEN tx[p].bookings ELSE bookings

Init ==
    /\ trains = [t \in {} |-> 0]
    /\ schedules = <<>>
    /\ bookings = EmptyBookings
    /\ today = 1
    /\ tx = [p \in Procs |-> NoTx]
    /\ pc = [p \in Procs |-> "menu"]
    /\ loc = [p \in Procs |-> NoLocals]
    /\ console = Silence
    /\ capacity = <<>>
    /\ history = HistoryOff

\* ------------------------------------------------------------ admin menu
addTrain(number, totalAcSeats, totalSleeperSeats, acFare, sleeperFare) ==
    /\ IF WriteLockFree /\ number \notin DOMAIN trains
       THEN /\ trains' = trains @@ (number :>
                   [total_ac_seats |-> totalAcSeats,
                    total_sleeper_seats |-> totalSleeperSeats,
                    ac_fare |-> acFare, sleeper_fare |-> sleeperFare])
            /\ console' = Silence
       ELSE /\ trains' = trains
            /\ console' = Silence
    /\ UNCHANGED <<schedules, bookings, today, tx, pc, loc, capacity, history>>

scheduleTrain(trainNumber, date) ==
    IF trainNumber \notin DOMAIN trains
    THEN /\ console' = Silence
         /\ UNCHANGED <<trains, schedules, bookings, today, tx, pc, loc, capacity, history>>
    ELSE LET totalAcSeats == trains[trainNumber].total_ac_seats
             totalSleeperSeats == trains[trainNumber].total_sleeper_seats
         IN  /\ IF WriteLockFree /\ ScheduleUnique(schedules, trainNumber, date)
                THEN /\ schedules' = Append(schedules,
                            [train_number |-> trainNumber, departure_date |-> date,
                             ac_seats_available |-> totalAcSeats,
                             sleeper_seats_available |-> totalSleeperSeats])
                     /\ capacity' = Append(capacity,
                            [ac_seats_available |-> totalAcSeats,
                             sleeper_seats_available |-> totalSleeperSeats])
                     /\ console' = Silence
                ELSE /\ UNCHANGED <<schedules, capacity>>
                     /\ console' = Silence
             /\ UNCHANGED <<trains, bookings, today, tx, pc, loc, history>>

deleteTrain(trainNumber) ==
    /\ IF WriteLockFree
       THEN /\ trains' = [t \in DOMAIN trains \ {trainNumber} |-> trains[t]]
            /\ console' = Silence
       ELSE /\ trains' = trains
            /\ console' = Silence
    /\ UNCHANGED <<schedules, bookings, today, tx, pc, loc, capacity, history>>

\* the calendar date changes between two date('now') evaluations
Midnight ==
    /\ today < MaxDay
    /\ today' = today + 1
    /\ UNCHANGED <<trains, schedules, bookings, tx, pc, loc, capacity, history>>
    /\ console' = Silence

\* ------------------------------------------------------------- user menu
\* a handler prints msg and returns to the menu through pressEnterToContinue
Return(p, msg, ticketId) ==
    /\ pc' = [pc EXCEPT ![p] = "menu"]
    /\ loc' = [loc EXCEPT ![p] = NoLocals]
    /\ console' = Line(p, msg, ticketId)

\* ROLLBACK: the private tables are dropped and the write lock released
rollback(p) == tx' = [tx EXCEPT ![p] = NoTx]

\* COMMIT: the private tables become the committed ones
commit(p) ==
    /\ schedules' = tx[p].schedules
    /\ bookings' = tx[p].bookings
    /\ tx' = [tx EXCEPT ![p] = NoTx]

\* schedule ids returned by the listing query of bookTicket:
\* schedules JOIN trains WHERE departure_date >= date('now')
ListedSchedules(p) ==
    {i \in 1..Len(ViewSchedules(p)) :
        /\ ViewSchedules(p)[i].train_number \in DOMAIN trains
        /\ ViewSchedules(p)[i].departure_date >= today}

\* a seat-count check that lets 0 through
InvalidSeatCountAllowsZero(numSeats, availableSeats) ==
    numSeats < 0 \/ numSeats > availableSeats

\* the seat-count check before the confirmation prompt
InvalidSeatCount(numSeats, availableSeats) ==
    numSeats <= 0 \/ numSeats > availableSeats

\* bookTicket from the listing to the confirmation prompt.  The locals depend
\* only on the listing's rows and on what the user types, so the prompts
\* between the listing and "Confirm booking?" are folded into this step.
bookTicketSelect(p, scheduleId, choice, numSeats, ticketId) ==
    /\ pc[p] = "menu"
    /\ UNCHANGED <<trains, schedules, bookings, today, tx, capacity, history>>
    /\ IF ListedSchedules(p) = {}
       THEN Return(p, "NoTrains", "")
       ELSE IF scheduleId \notin ListedSchedules(p)
       THEN Return(p, "InvalidId", "")
       ELSE IF choice \notin {1, 2}
       THEN Return(p, "InvalidChoice", "")
       ELSE LET trainData == ViewSchedules(p)[scheduleId]
                train == trains[trainData.train_number]
                chosenClass == IF choice = 1 THEN "AC" ELSE "Sleeper"
                seatColumn == IF choice = 1 THEN "ac_seats_available"
                                            ELSE "sleeper_seats_available"
                availableSeats == trainData[seatColumn]
                farePerSeat == IF choice = 1 THEN train.ac_fare ELSE train.sleeper_fare
                locals == [scheduleId |-> scheduleId, chosenClass |-> chosenClass,
                           seatColumn |-> seatColumn,
                           numSeats |-> numSeats,
                           totalFare |-> numSeats * farePerSeat,
                           ticketId |-> ticketId, currentAvailableSeats |-> 0]
            IN  IF InvalidSeatCount(numSeats, availableSeats)
                THEN Return(p, "InvalidSeats", "")
                ELSE /\ pc' = [pc EXCEPT ![p] = "confirm"]
                     /\ loc' = [loc EXCEPT ![p] = locals]
                     /\ console' = Silence

\* the answer to "Confirm booking? (y/n)" and BEGIN IMMEDIATE
bookTicketConfirm(p, confirm) ==
    /\ pc[p] = "confirm"
    /\ UNCHANGED <<trains, schedules, bookings, today, capacity, history>>
    /\ IF confirm = "y"
       THEN IF beginTransaction(p)
            THEN /\ tx' = [tx EXCEPT ![p] = [open |-> TRUE, schedules |-> schedules,
                                             bookings |-> bookings]]
                 /\ pc' = [pc EXCEPT ![p] = "book_check"]
                 /\ console' = Silence /\ UNCHANGED loc
            ELSE /\ Return(p, "NoTransaction", "")
                 /\ UNCHANGED tx
       ELSE /\ Return(p, "BookingCancelled", "")
            /\ UNCHANGED tx

\* SELECT <seatColumn> FROM schedules WHERE schedule_id = ... inside the transaction
bookTicketCheck(p) ==
    /\ pc[p] = "book_check"
    /\ UNCHANGED <<trains, schedules, bookings, today, capacity, history>>
    /\ LET S == ViewSchedules(p)
           currentSeatsResult ==
               IF loc[p].scheduleId \in 1..Len(S)
               THEN <<S[loc[p].scheduleId][loc[p].seatColumn]>> ELSE <<>>
       IN  IF currentSeatsResult = <<>> \/ currentSeatsResult[1] < loc[p].numSeats
           THEN /\ rollback(p)
                /\ Return(p, "SeatsTaken", "")
           ELSE /\ pc' = [pc EXCEPT ![p] = "book_insert"]
                /\ loc' = [loc EXCEPT ![p].currentAvailableSeats = currentSeatsResult[1]]
                /\ console' = Silence /\ UNCHANGED tx

\* INSERT INTO bookings ...; a PRIMARY KEY violation fails the statement
bookTicketInsert(p) ==
    /\ pc[p] = "book_insert"
    /\ UNCHANGED <<trains, schedules, bookings, today, capacity, history>>
    /\ IF TicketIdFree(tx[p].bookings, loc[p].ticketId)
       THEN /\ tx' = [tx EXCEPT ![p].bookings = @ @@ (loc[p].ticketId :>
                        [username |-> loggedInUsername(p),
                         schedule_id |-> loc[p].scheduleId,
                         class |-> loc[p].chosenClass,
                         num_seats |-> loc[p].numSeats,
                         total_fare |-> loc[p].totalFare])]
            /\ pc' = [pc EXCEPT ![p] = "book_update"]
            /\ console' = Silence /\ UNCHANGED loc
       ELSE /\ rollback(p)
            /\ Return(p, "DatabaseError", "")

\* a decrement by one seat whatever the number booked
NewSeatCountOneSeat(p) == loc[p].currentAvailableSeats - 1

\* the value bookTicket writes into the seat column
NewSeatCount(p) == loc[p].currentAvailableSeats - loc[p].numSeats

\* an UPDATE of the seat column without its WHERE clause
bookTicketUpdateEveryRow(p) ==
    /\ pc[p] = "book_update"
    /\ console' = Silence
    /\ UNCHANGED <<trains, schedules, bookings, today, capacity, history, loc>>
    /\ tx' = [tx EXCEPT ![p].schedules =
                  [i \in 1..Len(@) |->
                      [@[i] EXCEPT ![loc[p].seatColumn] = NewSeatCount(p)]]]
    /\ pc' = [pc EXCEPT ![p] = "book_commit"]

\* UPDATE schedules SET <seatColumn> = <currentAvailableSeats - numSeats>
bookTicketUpdate(p) ==
    /\ pc[p] = "book_update"
    /\ console' = Silence
    /\ UNCHANGED <<trains, schedules, bookings, today, capacity, history, loc>>
    /\ tx' = [tx EXCEPT ![p].schedules[loc[p].scheduleId][loc[p].seatColumn] =
                  NewSeatCount(p)]
    /\ pc' = [pc EXCEPT ![p] = "book_commit"]

bookTicketCommit(p) ==
    /\ pc[p] = "book_commit"
    /\ UNCHANGED <<trains, today, capacity>>
    /\ history' = IF history.on
                  THEN [history EXCEPT
                          !.booked = [ticketId |-> loc[p].ticketId,
                                      scheduleId |-> loc[p].scheduleId,
                                      row |-> schedules[loc[p].scheduleId],
                                      bookings |-> bookings],
                          !.cancelled = NoCancelled]
                  ELSE history
    /\ commit(p)
    /\ Return(p, "BookingSuccessful", loc[p].ticketId)

\* cancelTicket: the ticket id typed and BEGIN IMMEDIATE
cancelTicketBegin(p, ticketId) ==
    /\ pc[p] = "menu"
    /\ UNCHANGED <<trains, schedules, bookings, today, capacity, history>>
    /\ IF beginTransaction(p)
       THEN /\ tx' = [tx EXCEPT ![p] = [open |-> TRUE, schedules |-> schedules,
                                        bookings |-> bookings]]
            /\ pc' = [pc EXCEPT ![p] = "cancel_lookup"]
            /\ loc' = [loc EXCEPT ![p] = [NoLocals EXCEPT !.ticketId = ticketId]]
            /\ console' = Silence
       ELSE /\ Return(p, "CancelNoTransaction", ticketId)
            /\ UNCHANGED tx

\* a lookup by ticket id alone
OwnsTicketAnyUser(B, ticketId, username) == ticketId \in DOMAIN B

\* SELECT schedule_id, class, num_seats FROM bookings
\*   WHERE ticket_id = ... AND username = loggedInUsername
OwnsTicket(B, ticketId, username) ==
    ticketId \in DOMAIN B /\ B[ticketId].username = username

cancelTicketLookup(p) ==
    /\ pc[p] = "cancel_lookup"
    /\ UNCHANGED <<trains, schedules, bookings, today, capacity, history>>
    /\ IF ~OwnsTicket(ViewBookings(p), loc[p].ticketId, loggedInUsername(p))
       THEN /\ rollback(p)
            /\ Return(p, "InvalidTicket", loc[p].ticketId)
       ELSE LET row == ViewBookings(p)[loc[p].ticketId]
            IN  /\ loc' = [loc EXCEPT ![p].scheduleId = row.schedule_id,
                                      ![p].chosenClass = row.class,
                                      ![p].numSeats = row.num_seats,
                                      ![p].seatColumn =
                                          IF row.class = "AC"
                                          THEN "ac_seats_available"
                                          ELSE "sleeper_seats_available"]
                /\ pc' = [pc EXCEPT ![p] = "cancel_delete"]
                /\ console' = Silence /\ UNCHANGED tx

\* a cancellation whose DELETE removes nothing
cancelTicketDeleteKeepsRow(p) ==
    /\ pc[p] = "cancel_delete"
    /\ console' = Silence
    /\ UNCHANGED <<trains, schedules, bookings, today, capacity, history, loc, tx>>
    /\ pc' = [pc EXCEPT ![p] = "cancel_update"]

\* DELETE FROM bookings WHERE ticket_id = ...
cancelTicketDelete(p) ==
    /\ pc[p] = "cancel_delete"
    /\ console' = Silence
    /\ UNCHANGED <<trains, schedules, bookings, today, capacity, history, loc>>
    /\ tx' = [tx EXCEPT ![p].bookings =
                  [t \in DOMAIN @ \ {loc[p].ticketId} |-> @[t]]]
    /\ pc' = [pc EXCEPT ![p] = "cancel_update"]

\* an increment by one seat whatever the number cancelled
RestoredSeatCountOneSeat(current, numSeats) == current + 1

\* the value cancelTicket's UPDATE leaves in the seat column
RestoredSeatCount(current, numSeats) == current + numSeats

\* UPDATE schedules SET <seatColumn> = <seatColumn> + numSeats
cancelTicketUpdate(p) ==
    /\ pc[p] = "cancel_update"
    /\ console' = Silence
    /\ UNCHANGED <<trains, schedules, bookings, today, capacity, history, loc>>
    /\ tx' = [tx EXCEPT ![p].schedules =
                  IF loc[p].scheduleId \in 1..Len(@)
                  THEN [@ EXCEPT ![loc[p].scheduleId][loc[p].seatColumn] =
                           RestoredSeatCount(@, loc[p].numSeats)]
                  ELSE @]
    /\ pc' = [pc EXCEPT ![p] = "cancel_commit"]

cancelTicketCommit(p) ==
    /\ pc[p] = "cancel_commit"
    /\ UNCHANGED <<trains, today, capacity>>
    /\ history' = IF history.on
                  THEN [history EXCEPT
                          !.booked = NoBooked,
                          !.cancelled = [ticketId |-> loc[p].ticketId,
                                         username |-> loggedInUsername(p),
                                         restored |-> history.booked.ticketId
                                                         = loc[p].ticketId]]
                  ELSE history
    /\ commit(p)
    /\ Return(p, "TicketCancelled", loc[p].ticketId)

Next ==
    \/ \E n \in TrainNos, a \in SeatInputs, s \in SleeperInputs,
          fa \in AcFareInputs, fs \in SleeperFareInputs : addTrain(n, a, s, fa, fs)
    \/ \E n \in TrainNos, d \in Dates :
          scheduleTrain(n, d)
    \/ \E n \in TrainNos : deleteTrain(n)
    \/ Midnight
    \/ \E p \in Procs, i \in ScheduleIdInputs, c \in ChoiceInputs,
          n \in NumSeatsInputs, t \in TicketIds : bookTicketSelect(p, i, c, n, t)
    \/ \E p \in Procs, c \in ConfirmInputs : bookTicketConfirm(p, c)
    \/ \E p \in Procs : bookTicketCheck(p)
    \/ \E p \in Procs : bookTicketInsert(p)
    \/ \E p \in Procs : bookTicketUpdate(p)
    \/ \E p \in Procs : bookTicketCommit(p)
    \/ \E p \in Procs, t \in TicketIds : cancelTicketBegin(p, t)
    \/ \E p \in Procs : cancelTicketLookup(p)
    \/ \E p \in Procs : cancelTicketDelete(p)
    \/ \E p \in Procs : cancelTicketUpdate(p)
    \/ \E p \in Procs : cancelTicketCommit(p)

Spec == Init /\ [][Next]_vars

\* the same program with the history variable recording
InitHist ==
    /\ trains = [t \in {} |-> 0]
    /\ schedules = <<>>
    /\ bookings = EmptyBookings
    /\ today = 1
    /\ tx = [p \in Procs |-> NoTx]
    /\ pc = [p \in Procs |-> "menu"]
    /\ loc = [p \in Procs |-> NoLocals]
    /\ console = Silence
    /\ capacity = <<>>
    /\ history = HistoryOn

SpecHist == InitHist /\ [][Next]_vars

\* ------------------------------------------------- statement failures
\* sqlite3_exec may return an error for a reason other than the schema
\* (SQLITE_FULL, SQLITE_IOERR, SQLITE_NOMEM; for COMMIT also SQLITE_BUSY while
\* another connection is reading).  executeUpdate then returns false.

\* a failure branch that commits what the transaction wrote so far
StatementFailedCommits(p, msg, ticketId) ==
    /\ commit(p)
    /\ Return(p, msg, ticketId)

\* the else branch of "if (executeUpdate(a) && executeUpdate(b))":
\* db.rollback() and the database-error message
StatementFailed(p, msg, ticketId) ==
    /\ rollback(p)
    /\ UNCHANGED <<schedules, bookings>>
    /\ Return(p, msg, ticketId)

\* the INSERT or the UPDATE of bookTicket fails
bookTicketStatementFails(p) ==
    /\ pc[p] \in {"book_insert", "book_update"}
    /\ UNCHANGED <<trains, today, capacity, history>>
    /\ StatementFailed(p, "DatabaseError", "")

\* the DELETE or the UPDATE of cancelTicket fails
cancelTicketStatementFails(p) ==
    /\ pc[p] \in {"cancel_delete", "cancel_update"}
    /\ UNCHANGED <<trains, today, capacity, history>>
    /\ StatementFailed(p, "CancelDatabaseError", loc[p].ticketId)

\* COMMIT fails: nothing is published.  After SQLITE_BUSY the transaction
\* stays open; after the other errors SQLite has rolled it back.  The
\* return value of db.commit() is not looked at.
commitFails(p, stillOpen) ==
    /\ UNCHANGED <<schedules, bookings>>
    /\ tx' = IF stillOpen THEN tx ELSE [tx EXCEPT ![p] = NoTx]

bookTicketCommitFails(p, stillOpen) ==
    /\ pc[p] = "book_commit"
    /\ UNCHANGED <<trains, today, capacity, history>>
    /\ commitFails(p, stillOpen)
    /\ Return(p, "BookingSuccessful", loc[p].ticketId)

cancelTicketCommitFails(p, stillOpen) ==
    /\ pc[p] = "cancel_commit"
    /\ UNCHANGED <<trains, today, capacity, history>>
    /\ commitFails(p, stillOpen)
    /\ Return(p, "TicketCancelled", loc[p].ticketId)

NextFault ==
    \/ Next
    \/ \E p \in Procs : bookTicketStatementFails(p)
    \/ \E p \in Procs : cancelTicketStatementFails(p)
    \/ \E p \in Procs, stillOpen \in BOOLEAN : bookTicketCommitFails(p, stillOpen)
    \/ \E p \in Procs, stillOpen \in BOOLEAN : cancelTicketCommitFails(p, stillOpen)

SpecFault == Init /\ [][NextFault]_vars

\* --------------------------------------------------- two schedules
\* An administrator has added two trains and scheduled each once; the users
\* then book and cancel on either schedule.
TwoTrains == {"T1", "T2"}
TwoScheduleIds == 1..Cardinality(TwoTrains)

InitTwo ==
    /\ trains = [t \in TwoTrains |->
                    [total_ac_seats |-> 1, total_sleeper_seats |-> 1,
                     ac_fare |-> 10, sleeper_fare |-> 5]]
    /\ schedules = <<[train_number |-> "T1", departure_date |-> 1,
                      ac_seats_available |-> 1, sleeper_seats_available |-> 1],
                     [train_number |-> "T2", departure_date |-> 1,
                      ac_seats_available |-> 1, sleeper_seats_available |-> 1]>>
    /\ capacity = <<[ac_seats_available |-> 1, sleeper_seats_available |-> 1],
                    [ac_seats_available |-> 1, sleeper_seats_available |-> 1]>>
    /\ bookings = EmptyBookings
    /\ today = 1
    /\ tx = [p \in Procs |-> NoTx]
    /\ pc = [p \in Procs |-> "menu"]
    /\ loc = [p \in Procs |-> NoLocals]
    /\ console = Silence
    /\ history = HistoryOff

NextTwo ==
    \/ \E p \in Procs, i \in TwoScheduleIds, c \in {1, 2}, t \in TicketIds :
          bookTicketSelect(p, i, c, 1, t)
    \/ \E p \in Procs : bookTicketConfirm(p, "y")
    \/ \E p \in Procs : bookTicketCheck(p)
    \/ \E p \in Procs : bookTicketInsert(p)
    \/ \E p \in Procs : bookTicketUpdate(p)
    \/ \E p \in Procs : bookTicketCommit(p)
    \/ \E p \in Procs, t \in TicketIds : cancelTicketBegin(p, t)
    \/ \E p \in Procs : cancelTicketLookup(p)
    \/ \E p \in Procs : cancelTicketDelete(p)
    \/ \E p \in Procs : cancelTicketUpdate(p)
    \/ \E p \in Procs : cancelTicketCommit(p)

SpecTwo == InitTwo /\ [][NextTwo]_vars

\* ------------------------------------------------------- fares change
\* The administrator deletes a train route and adds it again with another
\* fare (addTrain validates no number) while users book.
FareInputs == {-5, 10}

NextFare ==
    \/ \E n \in TrainNos, fa \in FareInputs, fs \in SleeperFareInputs :
          addTrain(n, MaxSeats, 1, fa, fs)
    \/ \E n \in TrainNos, d \in Dates : scheduleTrain(n, d)
    \/ \E n \in TrainNos : deleteTrain(n)
    \/ \E p \in Procs, i \in ScheduleIdInputs, c \in ChoiceInputs,
          n \in NumSeatsInputs, t \in TicketIds : bookTicketSelect(p, i, c, n, t)
    \/ \E p \in Procs, c \in ConfirmInputs : bookTicketConfirm(p, c)
    \/ \E p \in Procs : bookTicketCheck(p)
    \/ \E p \in Procs : bookTicketInsert(p)
    \/ \E p \in Procs : bookTicketUpdate(p)
    \/ \E p \in Procs : bookTicketCommit(p)

SpecFare == Init /\ [][NextFare]_vars

\* ------------------------------------------------------ the admin menu
\* An administrator adds, deletes and schedules two trains on two dates, in
\* any order and as often as they like.
TwoDates == 1..MaxDay

NextAdmin ==
    \/ \E n \in TwoTrains, a \in SeatInputs, s \in SleeperInputs,
          fa \in AcFareInputs, fs \in SleeperFareInputs : addTrain(n, a, s, fa, fs)
    \/ \E n \in TwoTrains, d \in TwoDates : scheduleTrain(n, d)
    \/ \E n \in TwoTrains : deleteTrain(n)

SpecAdmin == Init /\ [][NextAdmin]_vars

\* ------------------------------------------- bookTicket, prompt by prompt
\* bookTicketSelect takes the listing query, the three prompts and the
\* seat-count check as one step.  Here they are the separate steps of the
\* code: the query fills the local "results", the user types while other
\* processes run, and the check compares with what the query returned.

\* rows of the listing query: schedule_id -> seats available and fares
ListingResults(p) ==
    [i \in ListedSchedules(p) |->
        [ac_seats_available |-> ViewSchedules(p)[i].ac_seats_available,
         sleeper_seats_available |-> ViewSchedules(p)[i].sleeper_seats_available,
         ac_fare |-> trains[ViewSchedules(p)[i].train_number].ac_fare,
         sleeper_fare |-> trains[ViewSchedules(p)[i].train_number].sleeper_fare]]

\* the listing query and the table it prints
bookTicketList(p) ==
    /\ pc[p] = "menu"
    /\ UNCHANGED <<trains, schedules, bookings, today, tx, capacity, history>>
    /\ IF ListingResults(p) = <<>>
       THEN Return(p, "NoTrains", "")
       ELSE /\ pc' = [pc EXCEPT ![p] = "select"]
            /\ loc' = [loc EXCEPT ![p] = [results |-> ListingResults(p)]]
            /\ console' = Silence

\* the schedule id, the class and the number of seats typed by the user
bookTicketInput(p, scheduleId, choice, numSeats) ==
    /\ pc[p] = "select"
    /\ UNCHANGED <<trains, schedules, bookings, today, tx, capacity, history>>
    /\ IF scheduleId \notin DOMAIN loc[p].results
       THEN Return(p, "InvalidId", "")
       ELSE IF choice \notin {1, 2}
       THEN Return(p, "InvalidChoice", "")
       ELSE LET trainData == loc[p].results[scheduleId]
            IN  /\ pc' = [pc EXCEPT ![p] = "precheck"]
                /\ loc' = [loc EXCEPT ![p] =
                     [scheduleId |-> scheduleId,
                      chosenClass |-> IF choice = 1 THEN "AC" ELSE "Sleeper",
                      seatColumn |-> IF choice = 1 THEN "ac_seats_available"
                                                  ELSE "sleeper_seats_available",
                      availableSeats |-> IF choice = 1
                                         THEN trainData.ac_seats_available
                                         ELSE trainData.sleeper_seats_available,
                      farePerSeat |-> IF choice = 1 THEN trainData.ac_fare
                                                    ELSE trainData.sleeper_fare,
                      numSeats |-> numSeats]]
                /\ console' = Silence

\* if (numSeats <= 0 || numSeats > availableSeats), then generateTicketId
bookTicketPrecheck(p, ticketId) ==
    /\ pc[p] = "precheck"
    /\ UNCHANGED <<trains, schedules, bookings, today, tx, capacity, history>>
    /\ IF InvalidSeatCount(loc[p].numSeats, loc[p].availableSeats)
       THEN Return(p, "InvalidSeats", "")
       ELSE /\ pc' = [pc EXCEPT ![p] = "confirm"]
            /\ loc' = [loc EXCEPT ![p] =
                 [scheduleId |-> loc[p].scheduleId,
                  chosenClass |-> loc[p].chosenClass,
                  seatColumn |-> loc[p].seatColumn,
                  numSeats |-> loc[p].numSeats,
                  totalFare |-> loc[p].numSeats * loc[p].farePerSeat,
                  ticketId |-> ticketId, currentAvailableSeats |-> 0]]
            /\ console' = Silence

\* a train with MaxSeats AC seats is scheduled once and alice holds a
\* booking of some of them
InitStale ==
    \E booked \in 1..MaxSeats :
        /\ trains = ("T1" :> [total_ac_seats |-> MaxSeats, total_sleeper_seats |-> 1,
                              ac_fare |-> 10, sleeper_fare |-> 5])
        /\ schedules = <<[train_number |-> "T1", departure_date |-> 1,
                          ac_seats_available |-> MaxSeats - booked,
                          sleeper_seats_available |-> 1]>>
        /\ capacity = <<[ac_seats_available |-> MaxSeats,
                         sleeper_seats_available |-> 1]>>
        /\ bookings = ("TKT1" :> [username |-> "alice", schedule_id |-> 1,
                                  class |-> "AC", num_seats |-> booked,
                                  total_fare |-> booked * 10])
        /\ today = 1
        /\ tx = [p \in Procs |-> NoTx]
        /\ pc = [p \in Procs |-> "menu"]
        /\ loc = [p \in Procs |-> NoLocals]
        /\ console = Silence
        /\ history = HistoryOff

NextStale ==
    \/ \E p \in Procs : bookTicketList(p)
    \/ \E p \in Procs, i \in ScheduleIdInputs, c \in ChoiceInputs,
          n \in NumSeatsInputs : bookTicketInput(p, i, c, n)
    \/ \E p \in Procs, t \in TicketIds : bookTicketPrecheck(p, t)
    \/ \E p \in Procs, c \in ConfirmInputs : bookTicketConfirm(p, c)
    \/ \E p \in Procs : bookTicketCheck(p)
    \/ \E p \in Procs : bookTicketInsert(p)
    \/ \E p \in Procs : bookTicketUpdate(p)
    \/ \E p \in Procs : bookTicketCommit(p)
    \/ \E p \in Procs, t \in TicketIds : cancelTicketBegin(p, t)
    \/ \E p \in Procs : cancelTicketLookup(p)
    \/ \E p \in Procs : cancelTicketDelete(p)
    \/ \E p \in Procs : cancelTicketUpdate(p)
    \/ \E p \in Procs : cancelTicketCommit(p)

SpecStale == InitStale /\ [][NextStale]_vars

\* ------------------------------------------------------ viewMyBookings
\* ticket ids returned by
\*   SELECT ... FROM bookings b JOIN schedules s ON b.schedule_id = s.schedule_id
\*     JOIN trains t ON s.train_number = t.train_number WHERE b.username = ...
MyBookingsShown(p) ==
    {t \in DOMAIN ViewBookings(p) :
        /\ ViewBookings(p)[t].username = loggedInUsername(p)
        /\ ViewBookings(p)[t].schedule_id \in 1..Len(ViewSchedules(p))
        /\ ViewSchedules(p)[ViewBookings(p)[t].schedule_id].train_number
              \in DOMAIN trains}

\* the handler prints one block per returned row; the console line carries
\* the set of ticket ids printed
viewMyBookings(p) ==
    /\ pc[p] = "menu"
    /\ console' = [proc |-> p, msg |-> "MyBookings", ticketId |-> "",
                   shown |-> MyBookingsShown(p)]
    /\ UNCHANGED <<trains, schedules, bookings, today, tx, pc, loc, capacity, history>>

NextView ==
    \/ Next
    \/ \E p \in Procs : viewMyBookings(p)

SpecView == Init /\ [][NextView]_vars

\* K = |Procs| processes have all listed the same schedule while it showed N
\* AC seats (K > N), each has asked for 1 AC seat and stands at "Confirm
\* booking?"; from there every process answers y and runs its transaction.
\* The schedule was created with N seats, or with more of which an earlier
\* booking holds the rest.
InitRace ==
    \E N \in 1..(Cardinality(Procs) - 1), total \in 1..MaxSeats,
       ids \in [Procs -> TicketIds], earlier \in TicketIds, q \in Procs,
       fare \in AcFareInputs, sfare \in SleeperFareInputs :
        /\ total >= N
        /\ trains = ("T1" :> [total_ac_seats |-> total, total_sleeper_seats |-> 1,
                              ac_fare |-> fare, sleeper_fare |-> sfare])
        /\ schedules = <<[train_number |-> "T1", departure_date |-> 1,
                          ac_seats_available |-> N,
                          sleeper_seats_available |-> 1]>>
        /\ capacity = <<[ac_seats_available |-> total,
                         sleeper_seats_available |-> 1]>>
        /\ bookings = IF total = N THEN EmptyBookings
                      ELSE (earlier :> [username |-> loggedInUsername(q),
                                        schedule_id |-> 1, class |-> "AC",
                                        num_seats |-> total - N,
                                        total_fare |-> (total - N) * fare])
        /\ today = 1
        /\ tx = [p \in Procs |-> NoTx]
        /\ pc = [p \in Procs |-> "confirm"]
        /\ loc = [p \in Procs |->
                    [scheduleId |-> 1, chosenClass |-> "AC",
                     seatColumn |-> "ac_seats_available", numSeats |-> 1,
                     totalFare |-> fare, ticketId |-> ids[p],
                     currentAvailableSeats |-> 0]]
        /\ console = Silence
        /\ history = HistoryOff

NextRace ==
    \/ \E p \in Procs : bookTicketConfirm(p, "y")
    \/ \E p \in Procs : bookTicketCheck(p)
    \/ \E p \in Procs : bookTicketInsert(p)
    \/ \E p \in Procs : bookTicketUpdate(p)
    \/ \E p \in Procs : bookTicketCommit(p)

SpecRace == InitRace /\ [][NextRace]_vars

\* ===================================================================
\* Properties
\* ===================================================================
RECURSIVE SumSeats(_, _)
SumSeats(B, ids) ==
    IF ids = {} THEN 0
    ELSE LET t == CHOOSE x \in ids : TRUE
         IN  B[t].num_seats + SumSeats(B, ids \ {t})

\* seats held by the live bookings of one class on one schedule
SeatsBooked(B, scheduleId, class) ==
    SumSeats(B, {t \in DOMAIN B :
                    B[t].schedule_id = scheduleId /\ B[t].class = class})

Conserved(S, B) ==
    \A i \in 1..Len(S) :
        /\ S[i].ac_seats_available + SeatsBooked(B, i, "AC")
               = capacity[i].ac_seats_available
        /\ S[i].sleeper_seats_available + SeatsBooked(B, i, "Sleeper")
               = capacity[i].sleeper_seats_available

\* the positions at which the next statement of a process is a SELECT
SelectPositions == {"menu", "book_check", "cancel_lookup"}

\* C1: conservation.  In the tables any SELECT of any process can read, each
\* schedule's available seats plus the seats of its live bookings equal the
\* total copied at the schedule's creation, for AC and for Sleeper.
C1_Conservation ==
    \A p \in Procs :
        pc[p] \in SelectPositions => Conserved(ViewSchedules(p), ViewBookings(p))

\* a writer has inserted its booking row and not yet decremented the counter
\* while the other process is free to read, and a committed booking exists
C1_Witness ==
    \E p, q \in Procs :
        /\ pc[p] = "book_update" /\ pc[q] = "menu"
        /\ ~Conserved(tx[p].schedules, tx[p].bookings)
        /\ DOMAIN bookings # {}

\* C2: non-negativity.  Every schedule's two counters are >= 0 in every
\* reachable state, whatever numbers were typed in addTrain.
C2_NonNegative ==
    \A i \in 1..Len(schedules) :
        /\ schedules[i].ac_seats_available >= 0
        /\ schedules[i].sleeper_seats_available >= 0

\* C3: atomicity under concurrency.  In the race of K processes for the N < K
\* AC seats of one schedule, every attempt ends either with a committed
\* booking or with the insufficient-seats outcome, and once all have ended
\* exactly N bookings are committed and the counter is 0.
C3_ExactlyN ==
    /\ console.msg \in {"None", "BookingSuccessful", "SeatsTaken"}
    /\ (\A p \in Procs : pc[p] = "menu") =>
           /\ SeatsBooked(bookings, 1, "AC") = capacity[1].ac_seats_available
           /\ schedules[1].ac_seats_available = 0

\* the committed availability of the class process p asked for
CommittedSeats(p) == schedules[loc[p].scheduleId][loc[p].seatColumn]

\* C4: stale-read abort.  A process that listed the schedule with enough
\* seats, and confirms when the committed availability has meanwhile fallen
\* below its request, ends with the seats-taken outcome, its transaction
\* rolled back and the committed tables untouched.
C4_StaleReadAbort ==
    [][\A p \in Procs :
         (/\ pc[p] \in {"confirm", "book_check"}
          /\ CommittedSeats(p) < loc[p].numSeats
          /\ pc'[p] # pc[p]
          /\ console' # Line(p, "BookingCancelled", ""))
         => \/ pc[p] = "confirm" /\ pc'[p] = "book_check"
            \/ /\ console' = Line(p, "SeatsTaken", "")
               /\ ~tx'[p].open
               /\ UNCHANGED <<schedules, bookings>>]_vars

SeatColumnOf(class) ==
    IF class = "AC" THEN "ac_seats_available" ELSE "sleeper_seats_available"

\* book and cancel run alone, one at a time, on committed tables S, B
SeqBook(S, B, username, scheduleId, class, numSeats, ticketId, totalFare) ==
    IF /\ scheduleId \in 1..Len(S) /\ numSeats > 0
       /\ S[scheduleId][SeatColumnOf(class)] >= numSeats
       /\ ticketId \notin DOMAIN B
    THEN <<[S EXCEPT ![scheduleId][SeatColumnOf(class)] = @ - numSeats],
           B @@ (ticketId :> [username |-> username, schedule_id |-> scheduleId,
                              class |-> class, num_seats |-> numSeats,
                              total_fare |-> totalFare])>>
    ELSE <<"failed">>

SeqCancel(S, B, username, ticketId) ==
    IF ticketId \in DOMAIN B /\ B[ticketId].username = username
    THEN <<[S EXCEPT ![B[ticketId].schedule_id][SeatColumnOf(B[ticketId].class)] =
                        @ + B[ticketId].num_seats],
           [t \in DOMAIN B \ {ticketId} |-> B[t]]>>
    ELSE <<"failed">>

\* C5: serializability.  Every committed bookTicket / cancelTicket
\* transaction changes the committed tables exactly as that operation run
\* alone on the tables committed just before it, and succeeds there; nothing
\* else changes an existing schedule row or a booking.  The commit order is
\* the sequential order.
C5_Serializable ==
    [][/\ \A p \in Procs :
            pc[p] = "book_commit" /\ pc'[p] # pc[p] =>
                <<schedules', bookings'>> =
                    SeqBook(schedules, bookings, loggedInUsername(p),
                            loc[p].scheduleId, loc[p].chosenClass, loc[p].numSeats,
                            loc[p].ticketId, loc[p].totalFare)
       /\ \A p \in Procs :
            pc[p] = "cancel_commit" /\ pc'[p] # pc[p] =>
                <<schedules', bookings'>> =
                    SeqCancel(schedules, bookings, loggedInUsername(p),
                              loc[p].ticketId)
       /\ (bookings' # bookings
              \/ \E i \in 1..Len(schedules) : schedules'[i] # schedules[i])
            => \E p \in Procs : /\ pc[p] \in {"book_commit", "cancel_commit"}
                                /\ pc'[p] = "menu"]_vars

\* one process commits a booking while the other, whose own booking is
\* already committed, is in the middle of another bookTicket
C5_Witness ==
    \E p, q \in Procs :
        /\ p # q
        /\ console.proc = p /\ console.msg = "BookingSuccessful"
        /\ pc[q] = "confirm"
        /\ \E t \in DOMAIN bookings : bookings[t].username = loggedInUsername(q)

\* C6: book-then-cancel round trip.  When the owner cancels the ticket of the
\* latest committed booking, with no booking or cancellation committed in
\* between, the schedule row and the bookings table are
\* again what they were just before that booking committed.
C6_RoundTrip ==
    [][\A p \in Procs :
         (/\ pc[p] = "cancel_commit" /\ pc'[p] = "menu"
          /\ history.booked.ticketId = loc[p].ticketId)
         => /\ schedules'[history.booked.scheduleId] = history.booked.row
            /\ bookings' = history.booked.bookings]_vars

\* a cancellation of the latest booking, of more than one seat, has committed
C6_Witness ==
    /\ console.msg = "TicketCancelled"
    /\ history.cancelled.restored
    /\ history.cancelled.ticketId = console.ticketId
    /\ \E i \in 1..Len(schedules) :
           schedules[i].ac_seats_available = MaxSeats
           /\ capacity[i].ac_seats_available = MaxSeats

CancelOutcomes == {"CancelNoTransaction", "InvalidTicket", "TicketCancelled"}

\* C7: cancel is not repeatable.  After a ticket was cancelled, a further
\* cancelTicket by the same user with the same id (not issued again since)
\* fails with the invalid-ticket outcome and changes no seat counter and no
\* booking.
C7_SecondCancelRejected ==
    [][\A p \in Procs :
         (/\ history.cancelled.ticketId # ""
          /\ history.cancelled.username = loggedInUsername(p)
          /\ pc[p] \in {"menu", "cancel_lookup", "cancel_commit"}
          /\ console'.proc = p
          /\ console'.ticketId = history.cancelled.ticketId
          /\ console'.msg \in CancelOutcomes)
         => /\ console'.msg = "InvalidTicket"
            /\ UNCHANGED <<schedules, bookings>>]_vars

\* C8: cancellation is owner-only.  A cancelTicket whose ticket id is live
\* but owned by another user ends exactly as one whose id does not exist:
\* the invalid-ticket outcome, the transaction rolled back, no table changed;
\* and whether its BEGIN succeeds depends on the write lock alone.
C8_OwnerOnly ==
    [][\A p \in Procs :
         /\ (/\ pc[p] = "cancel_lookup" /\ pc'[p] # pc[p]
             /\ \/ loc[p].ticketId \notin DOMAIN bookings
                \/ bookings[loc[p].ticketId].username # loggedInUsername(p))
            => /\ console' = Line(p, "InvalidTicket", loc[p].ticketId)
               /\ pc'[p] = "menu"
               /\ ~tx'[p].open
               /\ UNCHANGED <<trains, schedules, bookings>>
         /\ (pc[p] = "menu" /\ pc'[p] = "cancel_lookup")
            => \A q \in Procs : ~tx[q].open
         /\ (pc[p] = "menu" /\ console'.proc = p
                /\ console'.msg = "CancelNoTransaction")
            => \E q \in Procs : tx[q].open]_vars

\* a user was refused the cancellation of another user's live ticket
C8_Witness ==
    \E p \in Procs :
        /\ console.proc = p /\ console.msg = "InvalidTicket"
        /\ console.ticketId \in DOMAIN bookings
        /\ bookings[console.ticketId].username # loggedInUsername(p)

RejectedOutcomes ==
    {"NoTrains", "InvalidId", "InvalidChoice", "InvalidSeats",
     "BookingCancelled", "SeatsTaken"}

\* C9: a rejected booking has no effect.  A bookTicket that ends on an
\* unlisted schedule id, a class choice other than 1 or 2, a seat count that
\* is not positive or exceeds the listed availability, a declined
\* confirmation or the seats-taken re-check leaves trains, schedules and
\* bookings unchanged and no transaction open; only a listed schedule, a
\* valid class and a seat count in 1..availability reach the confirmation.
C9_RejectedNoEffect ==
    [][\A p \in Procs :
         /\ (console'.proc = p /\ console'.msg \in RejectedOutcomes)
            => /\ UNCHANGED <<trains, schedules, bookings>>
               /\ ~tx'[p].open
               /\ pc'[p] = "menu"
         /\ (pc[p] = "menu" /\ pc'[p] = "confirm")
            => /\ loc'[p].scheduleId \in ListedSchedules(p)
               /\ loc'[p].chosenClass \in {"AC", "Sleeper"}
               /\ loc'[p].seatColumn = SeatColumnOf(loc'[p].chosenClass)
               /\ loc'[p].numSeats >= 1
               /\ loc'[p].numSeats
                     <= schedules[loc'[p].scheduleId][loc'[p].seatColumn]
         /\ (pc[p] = "confirm" /\ pc'[p] = "menu")
            => UNCHANGED <<trains, schedules, bookings, tx>>]_vars

\* a seat count was rejected while a schedule still had all its AC seats
C9_Witness ==
    /\ console.msg = "InvalidSeats"
    /\ \E i \in 1..Len(schedules) : schedules[i].ac_seats_available = MaxSeats
    /\ \A q \in Procs : ~tx[q].open

C11_SuccessMeansCommitted ==
    [][\A p \in Procs :
         (/\ pc[p] \in {"book_commit", "cancel_commit"}
          /\ console'.proc = p
          /\ console'.msg \in {"BookingSuccessful", "TicketCancelled"})
         => /\ schedules' = tx[p].schedules
            /\ bookings' = tx[p].bookings
            /\ ~tx'[p].open]_vars

FailureOutcomes ==
    {"NoTransaction", "CancelNoTransaction", "DatabaseError", "CancelDatabaseError"}

\* C12: a failure mid-transaction leaves no partial effect.  When BEGIN
\* fails, or the INSERT/DELETE or the UPDATE of a started transaction fails,
\* the handler prints a failure line, the transaction it started is rolled
\* back, and the committed seat counters and bookings are what they were:
\* nothing changes them while the transaction is open, nor at the failure.
C12_NoPartialEffect ==
    [][\A p \in Procs :
         /\ (console'.proc = p /\ console'.msg \in FailureOutcomes)
            => /\ UNCHANGED <<schedules, bookings>>
               /\ pc'[p] = "menu"
               /\ tx'[p].open => pc[p] \in {"menu", "confirm"} /\ tx' = tx
         /\ (pc[p] \in {"book_insert", "book_update"} /\ pc'[p] = "menu")
            => console' = Line(p, "DatabaseError", "") /\ ~tx'[p].open
         /\ (pc[p] \in {"cancel_delete", "cancel_update"} /\ pc'[p] = "menu")
            => /\ console' = Line(p, "CancelDatabaseError", loc[p].ticketId)
               /\ ~tx'[p].open
         /\ (pc[p] \in {"book_check", "book_insert", "book_update",
                         "cancel_lookup", "cancel_delete", "cancel_update"})
            => UNCHANGED <<schedules, bookings>>]_vars

\* a cancellation failed at its DELETE or its UPDATE: the booking is still
\* there and no transaction is left open
C12_Witness ==
    /\ console.msg = "CancelDatabaseError"
    /\ console.ticketId \in DOMAIN bookings
    /\ \A q \in Procs : ~tx[q].open

\* C17: no lock across a user wait.  A process that waits for input (at the
\* menu and the handler prompts, at "Confirm booking?", at "Press Enter to
\* continue") has no transaction open.
C17_NoLockAcrossWait ==
    \A p \in Procs : pc[p] \in {"menu", "confirm"} => ~tx[p].open

\* C13: a ticket-id collision is surfaced and never overwrites.  When the
\* generated id is the ticket_id of a live booking the INSERT fails:
\* bookTicket prints the database-error line, rolls back, and no booking row
\* and no seat counter changes; a committed booking never alters a row that
\* was already there (ticket_id is the key of the table, so no two live
\* bookings share one).
C13_CollisionSurfaced ==
    [][\A p \in Procs :
         /\ (/\ pc[p] = "book_insert" /\ pc'[p] # pc[p]
             /\ loc[p].ticketId \in DOMAIN bookings)
            => /\ console' = Line(p, "DatabaseError", "")
               /\ pc'[p] = "menu"
               /\ ~tx'[p].open
               /\ UNCHANGED <<schedules, bookings>>
         /\ (pc[p] = "book_commit" /\ pc'[p] = "menu")
            => \A t \in DOMAIN bookings :
                  t \in DOMAIN bookings' /\ bookings'[t] = bookings[t]]_vars

\* a booking failed on a collision although seats were available
C13_Witness ==
    /\ console.msg = "DatabaseError"
    /\ DOMAIN bookings # {}
    /\ \E i \in 1..Len(schedules) :
           schedules[i].ac_seats_available >= 1
           /\ schedules[i].sleeper_seats_available >= 1

\* C14: a ticket-id collision is retried.  While an unused ticket id is
\* left, a collision of the generated id with a live booking does not fail
\* the booking.
C14_CollisionRetried ==
    [][\A p \in Procs :
         (/\ pc[p] = "book_insert"
          /\ loc[p].ticketId \in DOMAIN bookings
          /\ TicketIds \ DOMAIN bookings # {})
         => pc'[p] # "menu"]_vars

\* C15: ticket ids are never reused.  No booking commits under the ticket
\* id of the latest cancelled booking.
C15_NeverReused ==
    [][\A p \in Procs :
         (pc[p] = "book_commit" /\ pc'[p] = "menu")
         => loc[p].ticketId # history.cancelled.ticketId]_vars

\* positions inside a transaction at which the schedule it works on is known
OnScheduleKnown ==
    {"book_check", "book_insert", "book_update", "book_commit",
     "cancel_delete", "cancel_update", "cancel_commit"}

\* every open transaction is on a schedule other than scheduleId
OnlyOtherSchedules(scheduleId) ==
    \A q \in Procs :
        tx[q].open => pc[q] \in OnScheduleKnown /\ loc[q].scheduleId # scheduleId

\* C16: unrelated schedules do not interfere.  A bookTicket on schedule B,
\* or a cancelTicket of a live ticket on schedule B, is not failed at its
\* BEGIN when the only open transaction is on another schedule A.
C16_NoInterference ==
    [][\A p \in Procs :
         /\ (pc[p] = "confirm" /\ OnlyOtherSchedules(loc[p].scheduleId))
            => console' # Line(p, "NoTransaction", "")
         /\ \A t \in DOMAIN bookings :
              (pc[p] = "menu" /\ OnlyOtherSchedules(bookings[t].schedule_id))
              => console' # Line(p, "CancelNoTransaction", t)]_vars

\* C18: capacity upper bound.  For every schedule, in the committed table
\* and in the private tables of an open transaction, each class's
\* availability is at most the capacity copied when the schedule was made.
C18_CapacityBound ==
    /\ \A i \in 1..Len(schedules) :
          /\ schedules[i].ac_seats_available <= capacity[i].ac_seats_available
          /\ schedules[i].sleeper_seats_available
                <= capacity[i].sleeper_seats_available
    /\ \A p \in Procs : \A i \in 1..Len(tx[p].schedules) :
          /\ tx[p].schedules[i].ac_seats_available
                <= capacity[i].ac_seats_available
          /\ tx[p].schedules[i].sleeper_seats_available
                <= capacity[i].sleeper_seats_available

\* a cancellation has brought a schedule back to its full capacity
C18_Witness ==
    /\ console.msg = "TicketCancelled"
    /\ bookings = EmptyBookings
    /\ \E i \in 1..Len(schedules) :
          /\ capacity[i].ac_seats_available = MaxSeats
          /\ schedules[i].ac_seats_available = MaxSeats
          /\ schedules[i].sleeper_seats_available
                = capacity[i].sleeper_seats_available

\* the per-seat fare of a class in a row of table trains
FareOf(train, class) == IF class = "AC" THEN train.ac_fare ELSE train.sleeper_fare

\* C19: fare.  The total_fare of a booking, when it is committed, is its
\* num_seats times the fare of its class stored at that moment for the
\* train of its schedule, and is not negative.
C19_Fare ==
    [][\A p \in Procs :
         (pc[p] = "book_commit" /\ pc'[p] = "menu")
         => LET b == bookings'[loc[p].ticketId]
                trainNumber == schedules'[b.schedule_id].train_number
            IN  /\ trainNumber \in DOMAIN trains
                /\ b.total_fare = b.num_seats * FareOf(trains[trainNumber], b.class)
                /\ b.total_fare >= 0]_vars

\* C20: no booking on a past schedule.  At the step that commits a booking
\* the departure date of its schedule is not before the current date.
C20_NotPastAtCommit ==
    [][\A p \in Procs :
         (pc[p] = "book_commit" /\ pc'[p] = "menu")
         => /\ loc[p].scheduleId \in 1..Len(schedules')
            /\ schedules'[loc[p].scheduleId].departure_date >= today]_vars

\* no two rows of S have the same (train_number, departure_date)
AtMostOnePerTrainAndDate(S) ==
    \A i, j \in 1..Len(S) :
        (S[i].train_number = S[j].train_number
           /\ S[i].departure_date = S[j].departure_date) => i = j

\* C21: schedule uniqueness.  After every step at most one schedule exists
\* per (train_number, departure_date); an admin step never removes or
\* alters an existing schedule row, and it adds at most one row, for a pair
\* that had none.
C21_ScheduleUnique ==
    [][/\ AtMostOnePerTrainAndDate(schedules')
       /\ Len(schedules') \in {Len(schedules), Len(schedules) + 1}
       /\ \A i \in 1..Len(schedules) : schedules'[i] = schedules[i]
       /\ Len(schedules') > Len(schedules) =>
             \A i \in 1..Len(schedules) :
                ~(/\ schedules[i].train_number
                       = schedules'[Len(schedules')].train_number
                  /\ schedules[i].departure_date
                       = schedules'[Len(schedules')].departure_date)]_vars

\* every (train, date) pair is scheduled, and a train was added again with
\* another seat total since: each further scheduleTrain is a duplicate whose
\* totals differ from the counters of the existing row
C21_Witness ==
    /\ Len(schedules) = Cardinality(TwoTrains) * Cardinality(TwoDates)
    /\ \E i \in 1..Len(schedules) :
          /\ schedules[i].train_number \in DOMAIN trains
          /\ trains[schedules[i].train_number].total_ac_seats
                # schedules[i].ac_seats_available

\* C22: no false insufficient-seats rejection.  bookTicket rejects a
\* positive seat count as not available (at the seat-count check or at the
\* re-check inside the transaction) only if the committed availability of
\* the chosen class is below that count at the step of the rejection.
C22_NoFalseRejection ==
    [][\A p \in Procs :
         /\ (/\ pc[p] = "precheck"
             /\ console' = Line(p, "InvalidSeats", "")
             /\ loc[p].numSeats > 0)
            => CommittedSeats(p) < loc[p].numSeats
         /\ (pc[p] = "book_check" /\ console' = Line(p, "SeatsTaken", ""))
            => CommittedSeats(p) < loc[p].numSeats]_vars

SeatColumns == {"ac_seats_available", "sleeper_seats_available"}

\* C23: frame.  A committed bookTicket or cancelTicket on schedule X and
\* class C changes the counter of (X, C) and the one booking row of its
\* ticket id, and nothing else: not the other class's counter of X, no
\* field of another schedule, no other booking row, no train.
C23_Frame ==
    [][\A p \in Procs :
         (pc[p] \in {"book_commit", "cancel_commit"} /\ pc'[p] = "menu")
         => /\ trains' = trains
            /\ Len(schedules') = Len(schedules)
            /\ \A i \in 1..Len(schedules) :
                  /\ schedules'[i].train_number = schedules[i].train_number
                  /\ schedules'[i].departure_date = schedules[i].departure_date
                  /\ \A col \in SeatColumns :
                        (i # loc[p].scheduleId \/ col # loc[p].seatColumn)
                        => schedules'[i][col] = schedules[i][col]
            /\ DOMAIN bookings' \ {loc[p].ticketId}
                  = DOMAIN bookings \ {loc[p].ticketId}
            /\ \A t \in DOMAIN bookings \ {loc[p].ticketId} :
                  bookings'[t] = bookings[t]]_vars

\* a booking has just committed on one schedule while a booking on the
\* other schedule is live
C23_Witness ==
    /\ console.msg = "BookingSuccessful"
    /\ console.ticketId \in DOMAIN bookings
    /\ \E t \in DOMAIN bookings :
          bookings[t].schedule_id # bookings[console.ticketId].schedule_id

\* C24: listing completeness.  viewMyBookings prints exactly the live
\* bookings whose username is the logged-in user, and changes no table.
C24_ListingComplete ==
    [][\A p \in Procs :
         (console'.proc = p /\ console'.msg = "MyBookings")
         => /\ console'.shown =
                  {t \in DOMAIN bookings :
                      bookings[t].username = loggedInUsername(p)}
            /\ UNCHANGED <<trains, schedules, bookings, tx>>]_vars

====
